---- MODULE Spec2Model ----
(***************************************************************************)
(* Model of the trading-journal backend: the /ai/chat orchestration        *)
(* (app/apis/ai_router.py), the extraction and reply adapters              *)
(* (app/libs/ai_service.py) and the trade CRUD helpers                     *)
(* (app/apis/trade_router.py) over a store of chats, messages and trades.  *)
(*                                                                         *)
(* Conventions.  An Optional value is None (<<>>) or Some(v) (<<v>>).      *)
(* A message text is the sequence of its lines.                            *)
(* Prices and quantities are integers.  Every store call and every model   *)
(* call is one atomic step that either returns or raises; the steps of     *)
(* different tasks and different requests interleave freely.  The field    *)
(* "by" of a stored row records which /ai/chat request wrote it (0: none). *)
(***************************************************************************)
EXTENDS Integers, Sequences, FiniteSets, TLC

VARIABLES chats, messages, trades, reqs, last_response

vars == <<chats, messages, trades, reqs, last_response>>

------------------------------------------------------------------------------
(* Bounds of the model *)

\* /ai/chat requests that arrive in Spec (they run concurrently)
MaxReqs == 1
\* trade rows in SpecTrades: rows created plus /ai/chat requests that may add one
MaxTrades == 1
\* trade rows in the store of SpecAnalytics
MaxRows == 3
\* message rows in SpecMessages: an /ai/chat request may add two, a
\* create_message request one
MaxMessages == 2
\* /ai/chat requests of one user on one chat in SpecConcurrent
MaxConcurrent == 2

------------------------------------------------------------------------------
(* Values *)

None == <<>>
Some(v) == <<v>>

Users == {"u1", "u2"}
MsgTexts == {<<"hello">>}
ModelTexts == {<<"reply">>}

Date1 == [year |-> 2024, month |-> 1, day |-> 5]
Date2 == [year |-> 2024, month |-> 1, day |-> 20]

\* date.isoformat(): the fixed-width fields YYYY-MM-DD, most significant first
isoformat(d) == <<d.year, d.month, d.day>>

\* str.upper() on the tickers of the model
upper(s) ==
  CASE s = "aapl" -> "AAPL"
    [] s = "Msft" -> "MSFT"
    [] OTHER -> s

FallbackText == <<"I apologize">>

------------------------------------------------------------------------------
(* Trade arithmetic *)

calculate_profit_loss(entry_price, exit_price, quantity) ==
  IF exit_price # None
    THEN Some((exit_price[1] - entry_price) * quantity)
    ELSE None

------------------------------------------------------------------------------
(* ExtractionAdapter: AIService.extract_trade_from_text *)

JsonKeys == {"ticker", "entry_date", "entry_price", "quantity",
             "exit_date", "exit_price", "notes"}
RequiredKeys == {"ticker", "entry_date", "entry_price", "quantity"}

\* A JSON object of the model: the keys present, the keys whose value has a
\* type pydantic cannot coerce, and the values (read only for present keys).
JsonVal(tk, ep, q, xd, xp) ==
  [ticker |-> Some(tk), entry_date |-> Some(Date1), entry_price |-> Some(ep),
   quantity |-> Some(q), exit_date |-> xd, exit_price |-> xp, notes |-> None]

Json(keys, bad, val) == [keys |-> keys, bad |-> bad, val |-> val]

JsonOpen == Json(JsonKeys, {}, JsonVal("aapl", 1, 2, None, None))
JsonClosed == Json(JsonKeys, {}, JsonVal("aapl", 1, 2, Some(Date2), Some(3)))
JsonExitZero == Json(JsonKeys, {}, JsonVal("aapl", 1, 2, Some(Date2), Some(0)))

JsonObjects ==
  {JsonOpen, JsonClosed, JsonExitZero}
  \cup {Json(JsonKeys \ {k}, {}, JsonOpen.val) :
          k \in {"ticker", "quantity", "entry_date", "entry_price", "exit_price"}}
  \cup {Json(JsonKeys, {"entry_price"}, JsonOpen.val),
        Json({}, {}, JsonOpen.val),
        Json(JsonKeys, {}, [JsonOpen.val EXCEPT !.ticker = None])}

\* What the extraction model call can produce: an exception, the text "null",
\* text that is not JSON, JSON that is no object, or a JSON object.
ModelOutputs ==
  {[kind |-> k, data |-> Json({}, {}, JsonOpen.val)] :
     k \in {"error", "null", "garbage", "scalar"}}
  \cup {[kind |-> "json", data |-> j] : j \in JsonObjects}

\* TradeCreate(**trade_data): the pydantic model validates
TradeCreateValid(j) ==
  /\ RequiredKeys \subseteq j.keys
  /\ \A k \in RequiredKeys : j.val[k] # None
  /\ j.bad = {}

TradeCreate(j) ==
  [ticker      |-> j.val.ticker[1],
   entry_date  |-> j.val.entry_date[1],
   entry_price |-> j.val.entry_price[1],
   quantity    |-> j.val.quantity[1],
   exit_date   |-> IF "exit_date" \in j.keys THEN j.val.exit_date ELSE None,
   exit_price  |-> IF "exit_price" \in j.keys THEN j.val.exit_price ELSE None,
   notes       |-> IF "notes" \in j.keys THEN j.val.notes ELSE None]

Returned(v) == [raised |-> FALSE, value |-> v]
Raised == [raised |-> TRUE, value |-> None]

\* the mutant used for the extraction claim: no try/except around the body
extract_trade_from_text_unguarded(out) ==
  IF out.kind = "null" THEN Returned(None)
  ELSE IF out.kind # "json" THEN Raised
  ELSE IF out.data.keys # {} /\ "ticker" \in out.data.keys
    THEN IF TradeCreateValid(out.data)
           THEN Returned(Some(TradeCreate(out.data)))
           ELSE Raised
    ELSE Returned(None)

extract_trade_from_text(out) ==
  IF out.kind = "error" THEN Returned(None)
  ELSE IF out.kind = "null" THEN Returned(None)
  ELSE IF out.kind \in {"garbage", "scalar"} THEN Returned(None)
  ELSE IF out.data.keys # {} /\ "ticker" \in out.data.keys
    THEN IF TradeCreateValid(out.data)
           THEN Returned(Some(TradeCreate(out.data)))
           ELSE Returned(None)
    ELSE Returned(None)

\* the outputs the claims call an extraction failure
ExtractionFailure(out) ==
  \/ out.kind \in {"error", "garbage", "scalar"}
  \/ out.kind = "json" /\ ~("ticker" \in out.data.keys /\ TradeCreateValid(out.data))

------------------------------------------------------------------------------
(* ConversationAdapter: AIService.generate_chat_response *)

\* What a reply generation can do: the model answers, the model call raises
\* (caught inside the adapter), or the adapter raises outside its try block.
ReplyOutcomes ==
  {[kind |-> "text", text |-> t] : t \in ModelTexts}
  \cup {[kind |-> k, text |-> <<>>] : k \in {"model_error", "raises"}}

\* the mutant used for the reply claims: the error is passed on as empty text
generate_chat_response_no_fallback(outcome) ==
  IF outcome.kind = "text" THEN Returned(outcome.text)
  ELSE IF outcome.kind = "model_error" THEN Returned(<<>>)
  ELSE Raised

generate_chat_response(outcome) ==
  IF outcome.kind = "text" THEN Returned(outcome.text)
  ELSE IF outcome.kind = "model_error" THEN Returned(FallbackText)
  ELSE Raised

------------------------------------------------------------------------------
(* Store rows *)

\* the mutant used for the frame claim of ai_chat: the write replaces the
\* newest row of the table
Insert_upsert(table, row) ==
  IF table = <<>> THEN <<row>> ELSE [table EXCEPT ![Len(table)] = row]

\* table(...).insert({...}).execute(): a new row after the stored ones
Insert(table, row) == Append(table, row)

MessageRow(chat_id, user_id, content, role, by) ==
  [chat_id |-> chat_id, user_id |-> user_id, content |-> content,
   role |-> role, by |-> by]

insert_user_message_sync(chat_id, user_id, content, by) ==
  MessageRow(chat_id, user_id, content, "user", by)

insert_ai_message_sync(chat_id, user_id, content, by) ==
  MessageRow(chat_id, user_id, content, "assistant", by)

\* the row both create_trade_sync and insert_trade_sync hand to the store
TradeRow(id, user_id, t, profit_loss, by) ==
  [id |-> id, user_id |-> user_id,
   ticker |-> upper(t.ticker),
   entry_date |-> isoformat(t.entry_date),
   entry_price |-> t.entry_price,
   quantity |-> t.quantity,
   exit_date |-> IF t.exit_date # None THEN Some(isoformat(t.exit_date[1])) ELSE None,
   exit_price |-> t.exit_price,
   notes |-> t.notes,
   profit_loss |-> profit_loss,
   by |-> by]

insert_trade_sync(id, user_id, extracted_trade, profit_loss, by) ==
  TradeRow(id, user_id, extracted_trade, profit_loss, by)

\* ai_chat step 4: "if extracted_trade.exit_price:" then the product, else None
chat_profit_loss(extracted_trade) ==
  IF extracted_trade.exit_price # None /\ extracted_trade.exit_price[1] # 0
    THEN Some((extracted_trade.exit_price[1] - extracted_trade.entry_price)
              * extracted_trade.quantity)
    ELSE None

------------------------------------------------------------------------------
(* Store queries *)

\* the id the store gives a new trade row: one not in use
NextTradeId ==
  IF trades = <<>> THEN 1
  ELSE 1 + (CHOOSE m \in {trades[i].id : i \in 1..Len(trades)} :
              \A i \in 1..Len(trades) : trades[i].id <= m)

\* the mutant used for the ownership claim: the user_id filter is missing
FindChat_any_user(chat_id, user_id) ==
  {c \in DOMAIN chats : c = chat_id}

\* table("chats").select("*").eq("id", chat_id).eq("user_id", user_id)
FindChat(chat_id, user_id) ==
  {c \in DOMAIN chats : c = chat_id /\ chats[c].user_id = user_id}

\* table("messages").select("*").eq("chat_id", chat_id).order("created_at")
ChatMessages(chat_id) ==
  SelectSeq(messages, LAMBDA m : m.chat_id = chat_id)

IsoLess(a, b) ==
  \/ a[1] < b[1]
  \/ a[1] = b[1] /\ a[2] < b[2]
  \/ a[1] = b[1] /\ a[2] = b[2] /\ a[3] < b[3]

\* order("entry_date", desc=True); rows of one date stay in insertion order
RECURSIVE OrderByEntryDateDesc(_)
OrderByEntryDateDesc(s) ==
  IF s = <<>> THEN <<>>
  ELSE LET i == CHOOSE i \in 1..Len(s) :
                  /\ \A j \in 1..Len(s) : ~IsoLess(s[i].entry_date, s[j].entry_date)
                  /\ \A j \in 1..(i-1) : IsoLess(s[j].entry_date, s[i].entry_date)
           rest == [j \in 1..(Len(s)-1) |-> IF j < i THEN s[j] ELSE s[j+1]]
       IN <<s[i]>> \o OrderByEntryDateDesc(rest)

TradeHistoryLimit == 20

Limit(s, n) == IF Len(s) <= n THEN s ELSE SubSeq(s, 1, n)

TradeHistoryProjection(t) ==
  [ticker |-> t.ticker, entry_price |-> t.entry_price, exit_price |-> t.exit_price,
   quantity |-> t.quantity, entry_date |-> t.entry_date,
   profit_loss |-> t.profit_loss, notes |-> t.notes]

\* table("trades").select(...).eq("user_id", user_id).order("entry_date", desc).limit(20)
RecentTrades(user_id) ==
  LET own == SelectSeq(trades, LAMBDA t : t.user_id = user_id)
      top == Limit(OrderByEntryDateDesc(own), TradeHistoryLimit)
  IN [i \in 1..Len(top) |-> TradeHistoryProjection(top[i])]

------------------------------------------------------------------------------
(* ChatOrchestrator: POST /ai/chat *)

NewRequest(u, c, m) ==
  [user_id |-> u, chat_id |-> c, message |-> m,
   pc |-> "Start", lookup |-> "pending",
   user_msg_task |-> "none", db_read_task |-> "none", extraction_task |-> "none",
   ai_msg_task |-> "none", trade_insert_task |-> "none",
   extraction_failed |-> FALSE, extracted_trade |-> None,
   messages_data |-> <<>>, trade_history |-> <<>>,
   gen_outcome |-> "none", ai_response_text |-> <<>>, profit_loss_value |-> None,
   status |-> 0, detail |-> "",
   response |-> [message |-> <<>>, trade_extracted |-> None]]

SetReq(r, q) == reqs' = [reqs EXCEPT ![r] = q]

\* the mutant used for the progress claim: the error leaves the handler where
\* it was
HttpError_not_raised(q, pc, status, detail) ==
  [q EXCEPT !.status = status, !.detail = detail]

HttpError(q, pc, status, detail) ==
  [q EXCEPT !.pc = pc, !.status = status, !.detail = detail]

\* asyncio.gather(*tasks) returns once every task has returned ...
GatherDone_settled(tasks) == \A i \in 1..Len(tasks) : tasks[i] \in {"ok", "failed"}

GatherDone(tasks) == \A i \in 1..Len(tasks) : tasks[i] = "ok"

\* ... and raises as soon as one task has raised, the others still running
GatherRaised(tasks) == \E i \in 1..Len(tasks) : tasks[i] = "failed"

\* the mutant used for the ordering claim: the user-message write is not awaited
InitialTasks_no_user_msg(q) == <<q.db_read_task, q.extraction_task>>

InitialTasks(q) == <<q.user_msg_task, q.db_read_task, q.extraction_task>>

\* the mutant used for the counting claim: a trade is saved only when it is closed
TradeInsertLaunched_closed_only(extracted_trade) ==
  extracted_trade # None /\ extracted_trade[1].exit_price # None

\* "if extracted_trade:" (a pydantic model instance is always truthy)
TradeInsertLaunched(extracted_trade) == extracted_trade # None

FinalTasks(q) ==
  IF q.trade_insert_task # "none"
    THEN <<q.ai_msg_task, q.trade_insert_task>>
    ELSE <<q.ai_msg_task>>

\* the mutant used for the persisted-equals-returned claim
AssistantContent_generic(q) == FallbackText

\* the content handed to insert_ai_message_sync
AssistantContent(q) == q.ai_response_text

ChatResponse(q) ==
  [message |-> q.ai_response_text, trade_extracted |-> q.extracted_trade]

\* a request arrives: the handler has run up to the ownership query
ai_chat(u, c, m) ==
  /\ reqs' = Append(reqs, NewRequest(u, c, m))
  /\ UNCHANGED <<chats, messages, trades, last_response>>

\* step 1, and on success the launch of the three tasks of step 2
verify_ownership(r) ==
  /\ reqs[r].pc = "Start"
  /\ \E store_ok \in BOOLEAN :
       LET q == reqs[r] IN
       IF ~store_ok
         THEN SetReq(r, HttpError([q EXCEPT !.lookup = "error"],
                                  "Failed", 500, "Unexpected"))
       ELSE IF FindChat(q.chat_id, q.user_id) = {}
         THEN SetReq(r, HttpError([q EXCEPT !.lookup = "empty"],
                                  "Rejected", 404, "NotFound"))
       ELSE SetReq(r, [q EXCEPT !.lookup = "found", !.pc = "OwnershipVerified",
                                !.user_msg_task = "running",
                                !.db_read_task = "running",
                                !.extraction_task = "running"])
  /\ UNCHANGED <<chats, messages, trades, last_response>>

\* task (a): the worker thread writes the user message
user_msg_task(r) ==
  /\ reqs[r].user_msg_task = "running"
  /\ \E store_ok \in BOOLEAN :
       LET q == reqs[r] IN
       IF store_ok
         THEN /\ messages' = Insert(messages,
                   insert_user_message_sync(q.chat_id, q.user_id, q.message, r))
              /\ SetReq(r, [q EXCEPT !.user_msg_task = "ok"])
         ELSE /\ UNCHANGED messages
              /\ SetReq(r, [q EXCEPT !.user_msg_task = "failed"])
  /\ UNCHANGED <<chats, trades, last_response>>

\* task (b), first query: the chat's messages
db_read_messages(r) ==
  /\ reqs[r].db_read_task = "running"
  /\ \E store_ok \in BOOLEAN :
       LET q == reqs[r] IN
       IF store_ok
         THEN SetReq(r, [q EXCEPT !.db_read_task = "reading_trades",
                                  !.messages_data = ChatMessages(q.chat_id)])
         ELSE SetReq(r, [q EXCEPT !.db_read_task = "failed"])
  /\ UNCHANGED <<chats, messages, trades, last_response>>

\* task (b), second query: the caller's recent trades
db_read_trades(r) ==
  /\ reqs[r].db_read_task = "reading_trades"
  /\ \E store_ok \in BOOLEAN :
       LET q == reqs[r] IN
       IF store_ok
         THEN SetReq(r, [q EXCEPT !.db_read_task = "ok",
                                  !.trade_history = RecentTrades(q.user_id)])
         ELSE SetReq(r, [q EXCEPT !.db_read_task = "failed"])
  /\ UNCHANGED <<chats, messages, trades, last_response>>

\* task (c): the extraction call returns
extraction_task(r) ==
  /\ reqs[r].extraction_task = "running"
  /\ \E out \in ModelOutputs :
       LET q == reqs[r]
           res == extract_trade_from_text(out)
       IN IF res.raised
            THEN SetReq(r, [q EXCEPT !.extraction_task = "failed",
                                     !.extraction_failed = ExtractionFailure(out)])
            ELSE SetReq(r, [q EXCEPT !.extraction_task = "ok",
                                     !.extraction_failed = ExtractionFailure(out),
                                     !.extracted_trade = res.value])
  /\ UNCHANGED <<chats, messages, trades, last_response>>

\* the await of step 2 resumes: all three results, or the first exception
gather_initial(r) ==
  /\ reqs[r].pc = "OwnershipVerified"
  /\ LET q == reqs[r] IN
       \/ /\ GatherDone(InitialTasks(q))
          /\ SetReq(r, [q EXCEPT !.pc = "ContextGathered"])
       \/ /\ GatherRaised(InitialTasks(q))
          /\ SetReq(r, HttpError(q, "Failed", 500, "InitialTaskFailed"))
  /\ UNCHANGED <<chats, messages, trades, last_response>>

\* step 3: the history handed to generate_chat_response, role and content of
\* each row read in step 2
chat_history_for_ai(messages_data) ==
  [i \in 1..Len(messages_data) |->
     [role |-> messages_data[i].role, content |-> messages_data[i].content]]

\* step 3, then the launch of the writes of step 4
generate_reply(r) ==
  /\ reqs[r].pc = "ContextGathered"
  /\ \E outcome \in ReplyOutcomes :
       LET q == reqs[r]
           res == generate_chat_response(outcome)
           launch == TradeInsertLaunched(q.extracted_trade)
       IN SetReq(r, [q EXCEPT
            !.pc = "ReplyGenerated",
            !.gen_outcome = outcome.kind,
            !.ai_response_text = IF res.raised THEN FallbackText ELSE res.value,
            !.profit_loss_value =
               IF launch THEN chat_profit_loss(q.extracted_trade[1]) ELSE None,
            !.trade_insert_task = IF launch THEN "running" ELSE "none",
            !.ai_msg_task = "running"])
  /\ UNCHANGED <<chats, messages, trades, last_response>>

\* task D: the worker thread writes the extracted trade
trade_insert_task(r) ==
  /\ reqs[r].trade_insert_task = "running"
  /\ \E store_ok \in BOOLEAN :
       LET q == reqs[r] IN
       IF store_ok
         THEN /\ trades' = Insert(trades,
                   insert_trade_sync(NextTradeId, q.user_id, q.extracted_trade[1],
                                     q.profit_loss_value, r))
              /\ SetReq(r, [q EXCEPT !.trade_insert_task = "ok"])
         ELSE /\ UNCHANGED trades
              /\ SetReq(r, [q EXCEPT !.trade_insert_task = "failed"])
  /\ UNCHANGED <<chats, messages, last_response>>

\* task E: the worker thread writes the assistant message
ai_msg_task(r) ==
  /\ reqs[r].ai_msg_task = "running"
  /\ \E store_ok \in BOOLEAN :
       LET q == reqs[r] IN
       IF store_ok
         THEN /\ messages' = Insert(messages,
                   insert_ai_message_sync(q.chat_id, q.user_id, AssistantContent(q), r))
              /\ SetReq(r, [q EXCEPT !.ai_msg_task = "ok"])
         ELSE /\ UNCHANGED messages
              /\ SetReq(r, [q EXCEPT !.ai_msg_task = "failed"])
  /\ UNCHANGED <<chats, trades, last_response>>

\* the await of step 4 resumes: all writes done, or the first exception
gather_final(r) ==
  /\ reqs[r].pc = "ReplyGenerated"
  /\ LET q == reqs[r] IN
       \/ /\ GatherDone(FinalTasks(q))
          /\ SetReq(r, [q EXCEPT !.pc = "Persisted"])
       \/ /\ GatherRaised(FinalTasks(q))
          /\ SetReq(r, HttpError(q, "Failed", 500, "Unexpected"))
  /\ UNCHANGED <<chats, messages, trades, last_response>>

\* step 5: the response is returned
respond(r) ==
  /\ reqs[r].pc = "Persisted"
  /\ SetReq(r, [reqs[r] EXCEPT !.pc = "Done", !.status = 200,
                               !.response = ChatResponse(reqs[r])])
  /\ UNCHANGED <<chats, messages, trades, last_response>>

------------------------------------------------------------------------------
(* Trade CRUD: app/apis/trade_router.py *)

\* TradeCreate bodies of POST /trades
TradeCreates ==
  {[ticker |-> "aapl", entry_date |-> Date1, entry_price |-> ep, quantity |-> 2,
    exit_date |-> xd, exit_price |-> xp, notes |-> None] :
     ep \in {1, 2}, xd \in {None, Some(Date2)}, xp \in {None, Some(0), Some(3)}}

\* TradeUpdate bodies of PATCH /trades/{id}: the fields set in the request
\* (exclude_unset) and their values; a field set to null has the value None.
PatchKeys == {"entry_price", "quantity", "exit_date", "exit_price", "notes"}

PatchVal(xd, xp) ==
  [ticker |-> Some("aapl"), entry_date |-> Some(Date1),
   entry_price |-> Some(2), quantity |-> Some(1),
   exit_date |-> xd, exit_price |-> xp, notes |-> Some("n")]

\* every patch over the price, quantity and exit fields, the notes-only patch
\* and the ticker-only patch
Patches ==
  {[keys |-> ks, val |-> PatchVal(xd, xp)] :
     ks \in SUBSET (PatchKeys \ {"notes"}),
     xd \in {None, Some(Date2)}, xp \in {None, Some(0), Some(3)}}
  \cup {[keys |-> {"notes"}, val |-> PatchVal(None, None)]}
  \cup {[keys |-> {"ticker"}, val |-> PatchVal(None, None)]}

\* a patch as sent: the values of the fields it does not set are not part of it
Patch(p) ==
  [keys |-> p.keys,
   val |-> [p.val EXCEPT
              !.exit_date = IF "exit_date" \in p.keys THEN @ ELSE None,
              !.exit_price = IF "exit_price" \in p.keys THEN @ ELSE None]]

TradeUpdates == {Patch(p) : p \in Patches}

\* the last response of a CRUD, analytics or title endpoint; body is None for
\* the endpoints whose response body the model does not use
Response(op, status) == [op |-> op, status |-> status, body |-> None]

create_trade_sync(id, trade_data, user_id) ==
  TradeRow(id, user_id, trade_data,
           calculate_profit_loss(trade_data.entry_price, trade_data.exit_price,
                                 trade_data.quantity),
           0)

\* the mutant used for the ownership claim of the CRUD endpoints: the user_id
\* filter is missing
get_trade_sync_any_user(trade_id, user_id) ==
  {i \in 1..Len(trades) : trades[i].id = trade_id}

\* table("trades").select("*").eq("id", trade_id).eq("user_id", user_id)
get_trade_sync(trade_id, user_id) ==
  {i \in 1..Len(trades) : trades[i].id = trade_id /\ trades[i].user_id = user_id}

\* update_data.get(k, existing[k])
PatchGet(patch, k, existing) == IF k \in patch.keys THEN patch.val[k] ELSE existing

\* update_trade_sync steps 2-4: the dict handed to the store's update
update_data(existing, patch) ==
  LET entry_price == PatchGet(patch, "entry_price", Some(existing.entry_price))
      exit_price == PatchGet(patch, "exit_price", existing.exit_price)
      quantity == PatchGet(patch, "quantity", Some(existing.quantity))
      clears == "exit_date" \in patch.keys /\ patch.val.exit_date = None
  IN [keys |-> patch.keys \cup {"profit_loss"}
                 \cup (IF clears THEN {"exit_price"} ELSE {}),
      val |-> [ticker |-> patch.val.ticker,
               entry_date |-> Some(isoformat(patch.val.entry_date[1])),
               entry_price |-> patch.val.entry_price,
               quantity |-> patch.val.quantity,
               exit_date |-> IF patch.val.exit_date # None
                               THEN Some(isoformat(patch.val.exit_date[1]))
                               ELSE None,
               exit_price |-> IF clears THEN None ELSE patch.val.exit_price,
               notes |-> patch.val.notes,
               profit_loss |-> calculate_profit_loss(entry_price[1], exit_price,
                                                     quantity[1])]]

\* table("trades").update(update_data).eq("id", trade_id): the row afterwards
UpdatedRow(row, upd) ==
  [row EXCEPT
     !.ticker = IF "ticker" \in upd.keys THEN upd.val.ticker[1] ELSE @,
     !.entry_date = IF "entry_date" \in upd.keys THEN upd.val.entry_date[1] ELSE @,
     !.entry_price = IF "entry_price" \in upd.keys THEN upd.val.entry_price[1] ELSE @,
     !.quantity = IF "quantity" \in upd.keys THEN upd.val.quantity[1] ELSE @,
     !.exit_date = IF "exit_date" \in upd.keys THEN upd.val.exit_date ELSE @,
     !.exit_price = IF "exit_price" \in upd.keys THEN upd.val.exit_price ELSE @,
     !.notes = IF "notes" \in upd.keys THEN upd.val.notes ELSE @,
     !.profit_loss = IF "profit_loss" \in upd.keys THEN upd.val.profit_loss ELSE @]

update_trade_sync(i, patch) == UpdatedRow(trades[i], update_data(trades[i], patch))

\* POST /trades
create_trade(u, trade_data) ==
  /\ \E store_ok \in BOOLEAN :
       IF store_ok
         THEN /\ trades' = Append(trades,
                                  create_trade_sync(NextTradeId, trade_data, u))
              /\ last_response' = Response("create_trade", 201)
         ELSE /\ UNCHANGED trades
              /\ last_response' = Response("create_trade", 500)
  /\ UNCHANGED <<chats, messages, reqs>>

\* PATCH /trades/{trade_id}
update_trade(u, trade_id, patch) ==
  /\ \E store_ok \in BOOLEAN :
       IF ~store_ok
         THEN /\ UNCHANGED trades
              /\ last_response' = Response("update_trade", 500)
       ELSE IF get_trade_sync(trade_id, u) = {}
         THEN /\ UNCHANGED trades
              /\ last_response' = Response("update_trade", 404)
       ELSE LET i == CHOOSE i \in get_trade_sync(trade_id, u) : TRUE IN
            /\ trades' = [trades EXCEPT ![i] = update_trade_sync(i, patch)]
            /\ last_response' = Response("update_trade", 200)
  /\ UNCHANGED <<chats, messages, reqs>>

\* table("trades").delete().eq("id", trade_id)
DeleteTrade(trade_id) == SelectSeq(trades, LAMBDA t : t.id # trade_id)

\* DELETE /trades/{trade_id}: the ownership check, then the delete
delete_trade(u, trade_id) ==
  /\ \E lookup_ok \in BOOLEAN, delete_ok \in BOOLEAN :
       IF ~lookup_ok
         THEN /\ UNCHANGED trades
              /\ last_response' = Response("delete_trade", 500)
       ELSE IF get_trade_sync(trade_id, u) = {}
         THEN /\ UNCHANGED trades
              /\ last_response' = Response("delete_trade", 404)
       ELSE IF ~delete_ok
         THEN /\ UNCHANGED trades
              /\ last_response' = Response("delete_trade", 500)
       ELSE /\ trades' = DeleteTrade(trade_id)
            /\ last_response' = Response("delete_trade", 204)
  /\ UNCHANGED <<chats, messages, reqs>>

------------------------------------------------------------------------------
(* Chat deletion (app/apis/chat_router.py) and titles (POST /ai/generate-title) *)

\* table("chats").delete().eq("id", chat_id): "Delete a chat and all its messages"
DeleteChat(chat_id) == [c \in DOMAIN chats \ {chat_id} |-> chats[c]]

DeleteChatMessages(chat_id) == SelectSeq(messages, LAMBDA m : m.chat_id # chat_id)

\* DELETE /chats/{chat_id}: the ownership check, then the delete
delete_chat(u, chat_id) ==
  /\ \E lookup_ok \in BOOLEAN, delete_ok \in BOOLEAN :
       IF ~lookup_ok
         THEN /\ UNCHANGED <<chats, messages>>
              /\ last_response' = Response("delete_chat", 500)
       ELSE IF FindChat(chat_id, u) = {}
         THEN /\ UNCHANGED <<chats, messages>>
              /\ last_response' = Response("delete_chat", 404)
       ELSE IF ~delete_ok
         THEN /\ UNCHANGED <<chats, messages>>
              /\ last_response' = Response("delete_chat", 500)
       ELSE /\ chats' = DeleteChat(chat_id)
            /\ messages' = DeleteChatMessages(chat_id)
            /\ last_response' = Response("delete_chat", 204)
  /\ UNCHANGED <<trades, reqs>>

\* MessageCreate.role is a free string: the two roles the comment names and
\* one it does not
MessageRoles == {"user", "assistant", "system"}

\* POST /chats/messages: the ownership check, then the insert
create_message(u, chat_id, content, role) ==
  /\ \E lookup_ok \in BOOLEAN, insert_ok \in BOOLEAN :
       IF ~lookup_ok
         THEN /\ UNCHANGED messages
              /\ last_response' = Response("create_message", 500)
       ELSE IF FindChat(chat_id, u) = {}
         THEN /\ UNCHANGED messages
              /\ last_response' = Response("create_message", 404)
       ELSE IF ~insert_ok
         THEN /\ UNCHANGED messages
              /\ last_response' = Response("create_message", 500)
       ELSE /\ messages' = Append(messages, MessageRow(chat_id, u, content, role, 0))
            /\ last_response' = Response("create_message", 201)
  /\ UNCHANGED <<chats, trades, reqs>>

\* what the title model call can end in
TitleOutcomes ==
  {[kind |-> "text", text |-> "Trade log"], [kind |-> "empty", text |-> ""],
   [kind |-> "error", text |-> ""]}

\* TitleGenerator.generateTitle: the title, or None on a failed call or an
\* empty result
generate_title_for_chat(messages_data, outcome) ==
  IF outcome.kind = "text" /\ outcome.text # "" THEN Some(outcome.text) ELSE None

TitleContextLimit == 4

\* table("messages").select("role, content").eq("chat_id", ...).order(...).limit(4)
TitleContext(chat_id) ==
  LET top == Limit(ChatMessages(chat_id), TitleContextLimit)
  IN [i \in 1..Len(top) |-> [role |-> top[i].role, content |-> top[i].content]]

\* the mutant used for the title claim: the check for an empty chat is missing
NoTitleContext_unchecked(messages_data) == FALSE

\* "if not messages.data or len(messages.data) == 0"
NoTitleContext(messages_data) == messages_data = <<>>

\* the response of generate_title; new_title is what the title model call
\* returned, None also when the call was not reached
TitleResponse(status, new_title) ==
  [op |-> "generate_title", status |-> status,
   body |-> Some([new_title |-> new_title])]

\* POST /ai/generate-title/{chat_id}: ownership check, context read, title
\* model call, title update
generate_title(u, chat_id) ==
  /\ \E lookup_ok \in BOOLEAN, read_ok \in BOOLEAN, update_ok \in BOOLEAN,
        outcome \in TitleOutcomes :
       LET messages_data == TitleContext(chat_id)
           new_title == generate_title_for_chat(messages_data, outcome)
       IN IF ~lookup_ok
            THEN /\ UNCHANGED chats
                 /\ last_response' = TitleResponse(500, None)
          ELSE IF FindChat(chat_id, u) = {}
            THEN /\ UNCHANGED chats
                 /\ last_response' = TitleResponse(404, None)
          ELSE IF ~read_ok
            THEN /\ UNCHANGED chats
                 /\ last_response' = TitleResponse(500, None)
          ELSE IF NoTitleContext(messages_data)
            THEN /\ UNCHANGED chats
                 /\ last_response' = TitleResponse(400, None)
          ELSE IF new_title = None
            THEN /\ UNCHANGED chats
                 /\ last_response' = TitleResponse(500, None)
          ELSE IF ~update_ok
            THEN /\ UNCHANGED chats
                 /\ last_response' = TitleResponse(500, new_title)
          ELSE /\ chats' = [chats EXCEPT ![chat_id].title = new_title[1]]
               /\ last_response' = TitleResponse(200, new_title)
  /\ UNCHANGED <<messages, trades, reqs>>

------------------------------------------------------------------------------
(* POST /ai/extract-trade *)

\* the response records the output of the extraction model call next to the
\* trade the endpoint returns for it
extract_trade(u) ==
  /\ \E out \in ModelOutputs :
       LET res == extract_trade_from_text(out) IN
       IF res.raised
         THEN last_response' = Response("extract_trade", 500)
         ELSE last_response' =
                [op |-> "extract_trade", status |-> 200,
                 body |-> Some([output |-> out, trade |-> res.value])]
  /\ UNCHANGED <<chats, messages, trades, reqs>>

------------------------------------------------------------------------------
(* AnalyticsEngine: POST /ai/analytics *)

\* AnalyticsRequest bodies
AnalyticsRequests ==
  {[start_date |-> s, end_date |-> e] :
     s \in {None, Some(Date1), Some(Date2)}, e \in {None, Some(Date1), Some(Date2)}}

\* the mutant used for the date-range claim: gt in place of gte
analytics_query_strict_start(user_id, request) ==
  OrderByEntryDateDesc(
    SelectSeq(trades, LAMBDA t :
      /\ t.user_id = user_id
      /\ request.start_date # None =>
           IsoLess(isoformat(request.start_date[1]), t.entry_date)
      /\ request.end_date # None =>
           ~IsoLess(isoformat(request.end_date[1]), t.entry_date)))

\* table("trades").select("*").eq("user_id", ...)[.gte("entry_date", start)]
\* [.lte("entry_date", end)].order("entry_date", desc=True)
analytics_query(user_id, request) ==
  OrderByEntryDateDesc(
    SelectSeq(trades, LAMBDA t :
      /\ t.user_id = user_id
      /\ request.start_date # None =>
           ~IsoLess(t.entry_date, isoformat(request.start_date[1]))
      /\ request.end_date # None =>
           ~IsoLess(isoformat(request.end_date[1]), t.entry_date)))

\* the mutant used for the empty-set claim: an absent profit_loss read as 0
closed_trades_default_zero(ts) ==
  [i \in 1..Len(ts) |->
     IF ts[i].profit_loss = None THEN [ts[i] EXCEPT !.profit_loss = Some(0)]
     ELSE ts[i]]

\* [t for t in trades if t.get("profit_loss") is not None]
closed_trades(ts) == SelectSeq(ts, LAMBDA t : t.profit_loss # None)

\* the mutant used for the win-rate claim: a profit_loss of 0 counted as a win
winning_trades_with_zero(closed) == SelectSeq(closed, LAMBDA t : t.profit_loss[1] >= 0)

winning_trades(closed) == SelectSeq(closed, LAMBDA t : t.profit_loss[1] > 0)

losing_trades(closed) == SelectSeq(closed, LAMBDA t : t.profit_loss[1] < 0)

\* sum(t["profit_loss"] for t in ts)
RECURSIVE SumProfitLoss(_)
SumProfitLoss(ts) ==
  IF ts = <<>> THEN 0 ELSE ts[1].profit_loss[1] + SumProfitLoss(Tail(ts))

\* round(num / den, 2) as a number of hundredths: the nearest hundredth, a tie
\* going to the even one
round2(num, den) ==
  LET q == (100 * num) \div den
      rem == 100 * num - q * den
  IN IF 2 * rem < den THEN q
     ELSE IF 2 * rem > den THEN q + 1
     ELSE IF q % 2 = 0 THEN q ELSE q + 1

\* max(closed_trades, key=profit_loss): the first row with the largest value
best_trade(closed) ==
  IF closed = <<>> THEN None
  ELSE LET i == CHOOSE i \in 1..Len(closed) :
                  /\ \A j \in 1..Len(closed) :
                       closed[j].profit_loss[1] <= closed[i].profit_loss[1]
                  /\ \A j \in 1..(i-1) :
                       closed[j].profit_loss[1] < closed[i].profit_loss[1]
       IN Some(closed[i])

\* min(closed_trades, key=profit_loss): the first row with the smallest value
worst_trade(closed) ==
  IF closed = <<>> THEN None
  ELSE LET i == CHOOSE i \in 1..Len(closed) :
                  /\ \A j \in 1..Len(closed) :
                       closed[j].profit_loss[1] >= closed[i].profit_loss[1]
                  /\ \A j \in 1..(i-1) :
                       closed[j].profit_loss[1] > closed[i].profit_loss[1]
       IN Some(closed[i])

\* the AnalyticsResponse computed from the rows of the query; the four
\* rounded amounts are numbers of hundredths
AnalyticsResponse(ts) ==
  IF ts = <<>>
    THEN [total_trades |-> 0, total_profit_loss |-> 0, win_rate |-> 0,
          avg_profit |-> 0, avg_loss |-> 0,
          best_trade |-> None, worst_trade |-> None]
  ELSE LET closed == closed_trades(ts)
           total_trades == Len(closed)
           winning == winning_trades(closed)
           losing == losing_trades(closed)
       IN [total_trades |-> total_trades,
           total_profit_loss |-> round2(SumProfitLoss(closed), 1),
           win_rate |-> IF total_trades > 0
                          THEN round2(Len(winning) * 100, total_trades) ELSE 0,
           avg_profit |-> IF winning # <<>>
                            THEN round2(SumProfitLoss(winning), Len(winning)) ELSE 0,
           avg_loss |-> IF losing # <<>>
                          THEN round2(SumProfitLoss(losing), Len(losing)) ELSE 0,
           best_trade |-> best_trade(closed),
           worst_trade |-> worst_trade(closed)]

\* POST /ai/analytics; the response records the caller, the request and the
\* rows the query returned next to the analytics computed from them
get_analytics(u, request) ==
  /\ \E store_ok \in BOOLEAN :
       IF store_ok
         THEN LET ts == analytics_query(u, request) IN
              last_response' =
                [op |-> "get_analytics", status |-> 200,
                 body |-> Some([user_id |-> u, request |-> request, trades |-> ts,
                                analytics |-> AnalyticsResponse(ts)])]
         ELSE last_response' = Response("get_analytics", 500)
  /\ UNCHANGED <<chats, messages, trades, reqs>>

------------------------------------------------------------------------------
(* Specifications *)

InitChats == [c \in {"c1", "c2"} |->
                [user_id |-> IF c = "c1" THEN "u1" ELSE "u2", title |-> "New chat"]]

Init ==
  /\ chats = InitChats
  /\ messages = <<>>
  /\ trades = <<>>
  /\ reqs = <<>>
  /\ last_response = Response("none", 0)

\* the chat ids requested in Spec: u1's chat and an id that does not exist
RequestedChats == {"c1", "c3"}

\* /ai/chat requests of both users, running concurrently
Next ==
  \/ \E u \in Users, c \in RequestedChats, m \in MsgTexts :
       Len(reqs) < MaxReqs /\ ai_chat(u, c, m)
  \/ \E r \in 1..Len(reqs) : verify_ownership(r)
  \/ \E r \in 1..Len(reqs) : user_msg_task(r)
  \/ \E r \in 1..Len(reqs) : db_read_messages(r)
  \/ \E r \in 1..Len(reqs) : db_read_trades(r)
  \/ \E r \in 1..Len(reqs) : extraction_task(r)
  \/ \E r \in 1..Len(reqs) : gather_initial(r)
  \/ \E r \in 1..Len(reqs) : generate_reply(r)
  \/ \E r \in 1..Len(reqs) : trade_insert_task(r)
  \/ \E r \in 1..Len(reqs) : ai_msg_task(r)
  \/ \E r \in 1..Len(reqs) : gather_final(r)
  \/ \E r \in 1..Len(reqs) : respond(r)

Spec == Init /\ [][Next]_vars

\* the event loop resumes a handler that can continue, and every store and
\* model call in flight returns or raises
Fairness ==
  \A r \in 1..MaxReqs :
    /\ WF_vars(r \in 1..Len(reqs) /\ verify_ownership(r))
    /\ WF_vars(r \in 1..Len(reqs) /\ user_msg_task(r))
    /\ WF_vars(r \in 1..Len(reqs) /\ db_read_messages(r))
    /\ WF_vars(r \in 1..Len(reqs) /\ db_read_trades(r))
    /\ WF_vars(r \in 1..Len(reqs) /\ extraction_task(r))
    /\ WF_vars(r \in 1..Len(reqs) /\ gather_initial(r))
    /\ WF_vars(r \in 1..Len(reqs) /\ generate_reply(r))
    /\ WF_vars(r \in 1..Len(reqs) /\ trade_insert_task(r))
    /\ WF_vars(r \in 1..Len(reqs) /\ ai_msg_task(r))
    /\ WF_vars(r \in 1..Len(reqs) /\ gather_final(r))
    /\ WF_vars(r \in 1..Len(reqs) /\ respond(r))

SpecLive == Spec /\ Fairness

\* trade CRUD of both users next to /ai/chat requests of u1 on its own chat
NextTrades ==
  \/ \E u \in Users, t \in TradeCreates :
       Len(trades) + Len(reqs) < MaxTrades /\ create_trade(u, t)
  \/ \E u \in Users, id \in 1..Len(trades), p \in TradeUpdates : update_trade(u, id, p)
  \/ \E m \in MsgTexts :
       Len(trades) + Len(reqs) < MaxTrades /\ ai_chat("u1", "c1", m)
  \/ \E r \in 1..Len(reqs) : verify_ownership(r)
  \/ \E r \in 1..Len(reqs) : user_msg_task(r)
  \/ \E r \in 1..Len(reqs) : db_read_messages(r)
  \/ \E r \in 1..Len(reqs) : db_read_trades(r)
  \/ \E r \in 1..Len(reqs) : extraction_task(r)
  \/ \E r \in 1..Len(reqs) : gather_initial(r)
  \/ \E r \in 1..Len(reqs) : generate_reply(r)
  \/ \E r \in 1..Len(reqs) : trade_insert_task(r)
  \/ \E r \in 1..Len(reqs) : ai_msg_task(r)
  \/ \E r \in 1..Len(reqs) : gather_final(r)
  \/ \E r \in 1..Len(reqs) : respond(r)

SpecTrades == Init /\ [][NextTrades]_vars

\* TradeCreate bodies behind the rows of SpecAnalytics: open trades and trades
\* closed at a loss (-4), at 0 and at a gain (2 or 6), on two entry dates
AnalyticsTradeCreates ==
  {[ticker |-> "aapl", entry_date |-> d, entry_price |-> 2, quantity |-> 2,
    exit_date |-> IF xp = None THEN None ELSE Some(Date2), exit_price |-> xp,
    notes |-> None] :
     d \in {Date1, Date2}, xp \in {None, Some(0), Some(2), Some(3), Some(5)}}

AnalyticsOwners == (({"u1"} \X AnalyticsTradeCreates)
                    \cup {<<"u2", t>> : t \in {t \in AnalyticsTradeCreates :
                                                t.exit_price = Some(3)}})

\* a store of up to MaxRows trades written by create_trade
InitAnalytics ==
  /\ chats = InitChats
  /\ messages = <<>>
  /\ reqs = <<>>
  /\ last_response = Response("none", 0)
  /\ \E n \in 0..MaxRows :
       \E f \in [1..n -> AnalyticsOwners] :
         trades = [i \in 1..n |-> create_trade_sync(i, f[i][2], f[i][1])]

\* one analytics request of either user over the store (the handler writes
\* nothing, so a second request sees what the first one saw)
NextAnalytics ==
  \E u \in Users, request \in AnalyticsRequests :
    last_response.op = "none" /\ get_analytics(u, request)

SpecAnalytics == InitAnalytics /\ [][NextAnalytics]_vars

\* the requests of SpecOwner: two TradeCreate bodies, two TradeUpdate bodies,
\* the trade ids a store of MaxTrades rows can hold and the chat ids
OwnerTradeCreates ==
  {t \in TradeCreates : t.entry_price = 1 /\ t.exit_date = None
                        /\ t.exit_price \in {None, Some(3)}}

OwnerTradeUpdates ==
  {p \in TradeUpdates : p.keys = {"notes"} \/ (p.keys = {"exit_price"}
                                               /\ p.val.exit_price = Some(0))}

OwnerTradeIds == 1..MaxTrades

OwnerChatIds == {"c1", "c2", "c3"}

\* u1's chat holds one message, u2's chat none
InitOwner ==
  /\ chats = InitChats
  /\ messages = <<insert_user_message_sync("c1", "u1", <<"hello">>, 0)>>
  /\ trades = <<>>
  /\ reqs = <<>>
  /\ last_response = Response("none", 0)

\* trade CRUD, chat deletion and title generation, each by either user on any id
NextOwner ==
  \/ \E u \in Users, t \in OwnerTradeCreates :
       Len(trades) < MaxTrades /\ create_trade(u, t)
  \/ \E u \in Users, id \in OwnerTradeIds, p \in OwnerTradeUpdates :
       update_trade(u, id, p)
  \/ \E u \in Users, id \in OwnerTradeIds : delete_trade(u, id)
  \/ \E u \in Users, c \in OwnerChatIds : delete_chat(u, c)
  \/ \E u \in Users, c \in OwnerChatIds : generate_title(u, c)

SpecOwner == InitOwner /\ [][NextOwner]_vars

\* the messages stored by create_message
Posted == {i \in 1..Len(messages) : messages[i].by = 0}

\* /ai/chat and create_message requests of both users on every chat id
NextMessages ==
  \/ \E u \in Users, c \in OwnerChatIds, m \in MsgTexts :
       2 * Len(reqs) + Cardinality(Posted) + 2 <= MaxMessages /\ ai_chat(u, c, m)
  \/ \E u \in Users, c \in OwnerChatIds, m \in MsgTexts, role \in MessageRoles :
       2 * Len(reqs) + Cardinality(Posted) + 1 <= MaxMessages
       /\ create_message(u, c, m, role)
  \/ \E r \in 1..Len(reqs) : verify_ownership(r)
  \/ \E r \in 1..Len(reqs) : user_msg_task(r)
  \/ \E r \in 1..Len(reqs) : db_read_messages(r)
  \/ \E r \in 1..Len(reqs) : db_read_trades(r)
  \/ \E r \in 1..Len(reqs) : extraction_task(r)
  \/ \E r \in 1..Len(reqs) : gather_initial(r)
  \/ \E r \in 1..Len(reqs) : generate_reply(r)
  \/ \E r \in 1..Len(reqs) : trade_insert_task(r)
  \/ \E r \in 1..Len(reqs) : ai_msg_task(r)
  \/ \E r \in 1..Len(reqs) : gather_final(r)
  \/ \E r \in 1..Len(reqs) : respond(r)

SpecMessages == Init /\ [][NextMessages]_vars

\* /ai/extract-trade requests next to the /ai/chat requests of Spec
NextExtract ==
  \/ \E u \in Users : extract_trade(u)
  \/ Next

SpecExtract == Init /\ [][NextExtract]_vars

\* /ai/chat requests against a store that already holds rows: a message in
\* u1's chat and a trade of u1 written by POST /trades
InitFrame ==
  /\ chats = InitChats
  /\ messages = <<MessageRow("c1", "u1", <<"hello">>, "user", 0)>>
  /\ \E t \in OwnerTradeCreates : trades = <<create_trade_sync(1, t, "u1")>>
  /\ reqs = <<>>
  /\ last_response = Response("none", 0)

SpecFrame == InitFrame /\ [][Next]_vars

\* /ai/chat requests of u1 on u1's chat, running concurrently
NextConcurrent ==
  \/ \E m \in MsgTexts : Len(reqs) < MaxConcurrent /\ ai_chat("u1", "c1", m)
  \/ \E r \in 1..Len(reqs) : verify_ownership(r)
  \/ \E r \in 1..Len(reqs) : user_msg_task(r)
  \/ \E r \in 1..Len(reqs) : db_read_messages(r)
  \/ \E r \in 1..Len(reqs) : db_read_trades(r)
  \/ \E r \in 1..Len(reqs) : extraction_task(r)
  \/ \E r \in 1..Len(reqs) : gather_initial(r)
  \/ \E r \in 1..Len(reqs) : generate_reply(r)
  \/ \E r \in 1..Len(reqs) : trade_insert_task(r)
  \/ \E r \in 1..Len(reqs) : ai_msg_task(r)
  \/ \E r \in 1..Len(reqs) : gather_final(r)
  \/ \E r \in 1..Len(reqs) : respond(r)

SpecConcurrent == Init /\ [][NextConcurrent]_vars

------------------------------------------------------------------------------
(* Properties *)

ReqIds == 1..Len(reqs)

MsgsBy(r, role) ==
  {i \in 1..Len(messages) : messages[i].by = r /\ messages[i].role = role}

TradesBy(r) == {i \in 1..Len(trades) : trades[i].by = r}

Tasks(q) == {q.user_msg_task, q.db_read_task, q.extraction_task,
             q.ai_msg_task, q.trade_insert_task}

\* the chat the request names does not exist or belongs to another user
Unowned(q) ==
  q.chat_id \notin DOMAIN chats \/ chats[q.chat_id].user_id # q.user_id

\* C1: an ai_chat request on a chat that does not exist or belongs to another
\* user writes nothing and starts no task (no Message row, no Trade row, no
\* extraction, no reply generation), and once its ownership query has returned
\* it is Rejected with NotFound.  (If the query itself raises, the request is
\* Failed instead, still without a write.)
C1_UnownedChatRejectedWithoutWrites ==
  \A r \in ReqIds :
    LET q == reqs[r] IN
    Unowned(q) =>
      /\ MsgsBy(r, "user") = {} /\ MsgsBy(r, "assistant") = {}
      /\ TradesBy(r) = {}
      /\ Tasks(q) = {"none"}
      /\ q.gen_outcome = "none"
      /\ q.lookup \in {"pending", "empty", "error"}
      /\ q.pc \in {"Start", "Rejected", "Failed"}
      /\ q.lookup = "empty" =>
           q.pc = "Rejected" /\ q.status = 404 /\ q.detail = "NotFound"
      /\ q.pc = "Failed" => q.lookup = "error"

C1_Witness ==
  \E r \in ReqIds :
    /\ reqs[r].chat_id \in DOMAIN chats
    /\ chats[reqs[r].chat_id].user_id # reqs[r].user_id
    /\ reqs[r].pc = "Rejected"
    /\ reqs[r].status = 404

\* C2: within one request the ownership check has succeeded before any task
\* of the request is started or any row of it is written, and the user
\* message is in the store before the assistant-message insert is started.
C2_OwnershipThenUserThenAssistant ==
  \A r \in ReqIds :
    LET q == reqs[r] IN
    /\ (Tasks(q) # {"none"} \/ MsgsBy(r, "user") # {} \/ MsgsBy(r, "assistant") # {}
        \/ TradesBy(r) # {}) => q.lookup = "found"
    /\ q.ai_msg_task # "none" =>
         q.user_msg_task = "ok" /\ MsgsBy(r, "user") # {}
    /\ \A i \in MsgsBy(r, "assistant") : \E j \in MsgsBy(r, "user") : j < i

C2_Witness ==
  \E r \in ReqIds :
    /\ reqs[r].ai_msg_task = "running"
    /\ reqs[r].trade_insert_task = "ok"
    /\ MsgsBy(r, "user") # {}

\* C3: if the user-message insert or the history fetch of a request fails,
\* the request can only end in Failed: the reply generator is never invoked
\* and the request writes neither an assistant Message nor a Trade, whatever
\* the other tasks of the fan-out do.
C3_FatalInitialFailure ==
  \A r \in ReqIds :
    LET q == reqs[r] IN
    (q.user_msg_task = "failed" \/ q.db_read_task = "failed") =>
      /\ q.pc \in {"OwnershipVerified", "Failed"}
      /\ q.pc = "Failed" => q.status = 500
      /\ q.gen_outcome = "none"
      /\ q.ai_msg_task = "none" /\ q.trade_insert_task = "none"
      /\ MsgsBy(r, "assistant") = {}
      /\ TradesBy(r) = {}

C3_Witness ==
  \E r \in ReqIds :
    /\ reqs[r].user_msg_task = "failed"
    /\ reqs[r].db_read_task = "ok"
    /\ reqs[r].extraction_task = "ok"
    /\ reqs[r].extracted_trade # None
    /\ reqs[r].pc = "Failed"

ReplyFailed(q) == q.gen_outcome \in {"model_error", "raises"}

\* C4: when reply generation fails, the request goes on with the fallback
\* text: the assistant-message insert is launched with it, every assistant
\* Message of the request holds it, a response returns it, and the request
\* fails only if a write of step 4 fails; generate_chat_response returns the
\* fallback on a model error rather than raising.
C4_ReplyFailureFallsBack ==
  /\ \A o \in ReplyOutcomes :
       o.kind = "model_error" =>
         /\ ~generate_chat_response(o).raised
         /\ generate_chat_response(o).value = FallbackText
  /\ \A r \in ReqIds :
       LET q == reqs[r] IN
       ReplyFailed(q) =>
         /\ q.ai_response_text = FallbackText
         /\ q.ai_msg_task # "none"
         /\ q.pc \in {"ReplyGenerated", "Persisted", "Done", "Failed"}
         /\ q.pc = "Failed" =>
              q.ai_msg_task = "failed" \/ q.trade_insert_task = "failed"
         /\ \A i \in MsgsBy(r, "assistant") : messages[i].content = FallbackText
         /\ q.pc \in {"Persisted", "Done"} => MsgsBy(r, "assistant") # {}
         /\ q.pc = "Done" => q.response.message = FallbackText

C4_Witness ==
  \E r \in ReqIds :
    /\ reqs[r].gen_outcome = "model_error"
    /\ reqs[r].pc = "Done"
    /\ reqs[r].response.message = FallbackText
    /\ \E i \in MsgsBy(r, "assistant") : messages[i].content = FallbackText

\* C5: a request that returns a successful response has persisted exactly the
\* text it returns as its assistant Message.
C5_PersistedEqualsReturned ==
  \A r \in ReqIds :
    LET q == reqs[r] IN
    q.pc = "Done" =>
      /\ MsgsBy(r, "assistant") # {}
      /\ \A i \in MsgsBy(r, "assistant") : messages[i].content = q.response.message

C5_Witness ==
  \E r \in ReqIds :
    /\ reqs[r].pc = "Done"
    /\ reqs[r].gen_outcome = "text"
    /\ reqs[r].response.trade_extracted # None
    /\ \E i \in MsgsBy(r, "assistant") : messages[i].content = reqs[r].response.message

\* C6: a failed extraction (model error, unparsable output, no ticker, invalid
\* TradeCreate) returns None without raising, and the request goes on without
\* a trade: no Trade row, both messages persisted on success, trade_extracted
\* null, and a failure of the request only from a failed store write or read.
C6_ExtractionFailureIsNoTrade ==
  \A r \in ReqIds :
    LET q == reqs[r] IN
    /\ q.extraction_task # "failed"
    /\ q.extraction_failed =>
         /\ q.extraction_task = "ok"
         /\ q.extracted_trade = None
         /\ q.trade_insert_task = "none"
         /\ TradesBy(r) = {}
         /\ q.pc = "Failed" =>
              "failed" \in {q.user_msg_task, q.db_read_task, q.ai_msg_task}
         /\ q.pc = "Done" =>
              /\ q.response.trade_extracted = None
              /\ MsgsBy(r, "user") # {}
              /\ MsgsBy(r, "assistant") # {}

C6_Witness ==
  \E r \in ReqIds :
    /\ reqs[r].extraction_failed
    /\ reqs[r].pc = "Done"
    /\ reqs[r].response.trade_extracted = None

\* C7: a request that returns a successful response has inserted exactly one
\* user Message and one assistant Message, and one Trade row if extraction
\* returned a draft and none otherwise; trade_extracted is non-null exactly
\* when the request inserted a Trade row.
C7_OneOfEachOnSuccess ==
  \A r \in ReqIds :
    LET q == reqs[r] IN
    q.pc = "Done" =>
      /\ Cardinality(MsgsBy(r, "user")) = 1
      /\ Cardinality(MsgsBy(r, "assistant")) = 1
      /\ Cardinality(TradesBy(r)) = IF q.extracted_trade # None THEN 1 ELSE 0
      /\ (q.response.trade_extracted # None) <=> (TradesBy(r) # {})

C7_Witness ==
  \E r \in ReqIds :
    /\ reqs[r].pc = "Done"
    /\ reqs[r].extracted_trade # None
    /\ reqs[r].extracted_trade[1].exit_price = None
    /\ Cardinality(TradesBy(r)) = 1

\* C8: when the trade insert of step 4 fails and the assistant-message insert
\* succeeds, the request still answers with the computed reply text and not
\* with a generic failure.
C8_TradeWriteFailureKeepsReply ==
  \A r \in ReqIds :
    LET q == reqs[r] IN
    (/\ q.trade_insert_task = "failed"
     /\ q.ai_msg_task = "ok"
     /\ q.pc \in {"Done", "Rejected", "Failed"}) =>
      /\ q.response.message = q.ai_response_text
      /\ ~(q.status = 500 /\ q.detail = "Unexpected")

\* C9: every stored Trade has profit_loss present exactly when exit_price is
\* present, and then equal to (exit_price - entry_price) * quantity.
C9_ProfitLossMatchesRow ==
  \A i \in 1..Len(trades) :
    LET t == trades[i] IN
    /\ (t.profit_loss # None) <=> (t.exit_price # None)
    /\ t.exit_price # None =>
         t.profit_loss = Some((t.exit_price[1] - t.entry_price) * t.quantity)

\* C10: an update_trade that sets exit_date to null on a closed trade leaves
\* the row with exit_date, exit_price and profit_loss all absent.
C10_ClearingExitDateReopens ==
  [][\A u \in Users, id \in 1..Len(trades), p \in TradeUpdates :
       (/\ trades[id].exit_price # None
        /\ trades[id].profit_loss # None
        /\ "exit_date" \in p.keys /\ p.val.exit_date = None
        /\ update_trade(u, id, p)
        /\ last_response'.status = 200)
       => (/\ trades'[id].exit_date = None
           /\ trades'[id].exit_price = None
           /\ trades'[id].profit_loss = None)]_vars

\* the patch sets entry_price, exit_price and quantity to the values the row
\* already has, or does not set them (the empty and the notes-only patch too)
KeepsPriceFields(row, p) ==
  /\ "entry_price" \in p.keys => p.val.entry_price = Some(row.entry_price)
  /\ "quantity" \in p.keys => p.val.quantity = Some(row.quantity)
  /\ "exit_price" \in p.keys => p.val.exit_price = row.exit_price
  /\ ("exit_date" \in p.keys /\ p.val.exit_date = None) => row.exit_price = None

\* C11: an update_trade whose patch leaves entry_price, exit_price and
\* quantity of the stored trade at their current values (the empty patch and
\* the notes-only patch included) leaves profit_loss unchanged, and applying
\* the patch to the updated row once more yields the same row.
C11_UpdateKeepsProfitLoss ==
  [][\A u \in Users, id \in 1..Len(trades), p \in TradeUpdates :
       (/\ KeepsPriceFields(trades[id], p)
        /\ update_trade(u, id, p)
        /\ last_response'.status = 200)
       => (/\ trades'[id].profit_loss = trades[id].profit_loss
           /\ UpdatedRow(trades'[id], update_data(trades'[id], p))
                = trades'[id])]_vars

\* a get_analytics request has been answered with its analytics
AnalyticsAnswered ==
  last_response.op = "get_analytics" /\ last_response.status = 200

\* positions of the rows with profit_loss present
ClosedOf(ts) == {i \in 1..Len(ts) : ts[i].profit_loss # None}

RECURSIVE PLSum(_, _)
PLSum(ts, I) ==
  IF I = {} THEN 0
  ELSE LET i == CHOOSE i \in I : TRUE IN ts[i].profit_loss[1] + PLSum(ts, I \ {i})

\* total_trades counts the rows with profit_loss present, and avg_profit and
\* avg_loss average the rows with profit_loss > 0 and < 0: a profit_loss of 0
\* is counted in total_trades and is in neither bucket
ZeroInNeitherBucket(ts, a) ==
  LET wins == {i \in ClosedOf(ts) : ts[i].profit_loss[1] > 0}
      losses == {i \in ClosedOf(ts) : ts[i].profit_loss[1] < 0}
  IN /\ a.total_trades = Cardinality(ClosedOf(ts))
     /\ a.avg_profit = IF wins = {} THEN 0
                       ELSE round2(PLSum(ts, wins), Cardinality(wins))
     /\ a.avg_loss = IF losses = {} THEN 0
                     ELSE round2(PLSum(ts, losses), Cardinality(losses))

\* C12 as stated: win_rate is exactly 100 * (trades with profit_loss > 0) /
\* (trades with profit_loss present), and 0 when no trade has profit_loss
\* present; total_trades is the number of trades with profit_loss present, a
\* profit_loss of 0 counting there and in neither bucket.  (win_rate is in
\* hundredths, so the quotient is 100 * 100 * wins / closed.)
C12_WinRateExact ==
  AnalyticsAnswered =>
    LET ts == last_response.body[1].trades
        a == last_response.body[1].analytics
        n == Cardinality(ClosedOf(ts))
        w == Cardinality({i \in ClosedOf(ts) : ts[i].profit_loss[1] > 0})
    IN /\ ZeroInNeitherBucket(ts, a)
       /\ n = 0 => a.win_rate = 0
       /\ n > 0 => a.win_rate * n = 100 * 100 * w

\* C12 amended: win_rate is 100 * (trades with profit_loss > 0) / (trades with
\* profit_loss present) rounded to two decimal places, and 0 when no trade
\* has profit_loss present; total_trades is the number of trades with
\* profit_loss present, a profit_loss of 0 counting there and in neither bucket.
C12_WinRateRounded ==
  AnalyticsAnswered =>
    LET ts == last_response.body[1].trades
        a == last_response.body[1].analytics
        n == Cardinality(ClosedOf(ts))
        w == Cardinality({i \in ClosedOf(ts) : ts[i].profit_loss[1] > 0})
    IN /\ ZeroInNeitherBucket(ts, a)
       /\ n = 0 => a.win_rate = 0
       /\ n > 0 => a.win_rate = round2(100 * w, n)

\* three closed trades, one of them a win and one with profit_loss 0
C12_Witness ==
  /\ AnalyticsAnswered
  /\ LET ts == last_response.body[1].trades IN
       /\ Cardinality(ClosedOf(ts)) = 3
       /\ Cardinality({i \in ClosedOf(ts) : ts[i].profit_loss[1] > 0}) = 1
       /\ \E i \in ClosedOf(ts) : ts[i].profit_loss[1] = 0
       /\ last_response.body[1].analytics.win_rate = 3333

\* C13: on an empty trade set and on a set of open trades only, get_analytics
\* answers with total_trades = 0, total_profit_loss = 0, win_rate = avg_profit
\* = avg_loss = 0 and no best_trade or worst_trade; on any set avg_profit is 0
\* when no trade is a win and avg_loss is 0 when no trade is a loss.
C13_EmptyAndOpenSetsGiveZeros ==
  AnalyticsAnswered =>
    LET ts == last_response.body[1].trades
        a == last_response.body[1].analytics
    IN /\ ClosedOf(ts) = {} =>
            /\ a.total_trades = 0 /\ a.total_profit_loss = 0
            /\ a.win_rate = 0 /\ a.avg_profit = 0 /\ a.avg_loss = 0
            /\ a.best_trade = None /\ a.worst_trade = None
       /\ (\A i \in ClosedOf(ts) : ts[i].profit_loss[1] <= 0) => a.avg_profit = 0
       /\ (\A i \in ClosedOf(ts) : ts[i].profit_loss[1] >= 0) => a.avg_loss = 0

\* the query returned open trades only
C13_Witness ==
  /\ AnalyticsAnswered
  /\ last_response.body[1].trades # <<>>
  /\ ClosedOf(last_response.body[1].trades) = {}
  /\ last_response.body[1].analytics.total_trades = 0

\* C14: the rows get_analytics computes over are exactly the caller's own
\* trades with start_date <= entry_date <= end_date, both bounds inclusive and
\* an absent bound no constraint; no trade of another user is among them.
C14_OwnTradesInRange ==
  AnalyticsAnswered =>
    LET b == last_response.body[1]
        InRange(t) ==
          /\ b.request.start_date # None =>
               \/ t.entry_date = isoformat(b.request.start_date[1])
               \/ IsoLess(isoformat(b.request.start_date[1]), t.entry_date)
          /\ b.request.end_date # None =>
               \/ t.entry_date = isoformat(b.request.end_date[1])
               \/ IsoLess(t.entry_date, isoformat(b.request.end_date[1]))
        expected == {i \in 1..Len(trades) :
                       trades[i].user_id = b.user_id /\ InRange(trades[i])}
    IN /\ {b.trades[i].id : i \in 1..Len(b.trades)}
            = {trades[i].id : i \in expected}
       /\ Len(b.trades) = Cardinality(expected)
       /\ \A i \in 1..Len(b.trades) : b.trades[i].user_id = b.user_id

\* a request with both bounds whose start_date is the entry date of a row it
\* returns, over a store that also holds a later row of the caller and a row
\* of another user
C14_Witness ==
  /\ AnalyticsAnswered
  /\ LET b == last_response.body[1] IN
       /\ b.request.start_date = Some(Date1) /\ b.request.end_date = Some(Date1)
       /\ \E i \in 1..Len(b.trades) : b.trades[i].entry_date = isoformat(Date1)
       /\ \E i \in 1..Len(trades) :
            trades[i].user_id = b.user_id /\ trades[i].entry_date = isoformat(Date2)
       /\ \E i \in 1..Len(trades) : trades[i].user_id # b.user_id

\* the stored trade with this id (ids are unique)
TradeWithId(ts, id) == {ts[i] : i \in {i \in 1..Len(ts) : ts[i].id = id}}

\* C15: in every interleaving of the requests of several users, a Trade or
\* Chat row is updated or deleted only by an update_trade, delete_trade,
\* delete_chat or generate_title request of the row's owner, and such a
\* request of another user ends in NotFound (or in the 500 of a raising
\* ownership query) and leaves every row unchanged.
C15_OnlyOwnerWrites ==
  [][/\ \A t \in {trades[i] : i \in 1..Len(trades)} :
          TradeWithId(trades', t.id) # {t} =>
            \/ \E p \in OwnerTradeUpdates : update_trade(t.user_id, t.id, p)
            \/ delete_trade(t.user_id, t.id)
     /\ \A c \in DOMAIN chats :
          (c \notin DOMAIN chats' \/ chats'[c] # chats[c]) =>
            \/ delete_chat(chats[c].user_id, c)
            \/ generate_title(chats[c].user_id, c)
     /\ \A u \in Users :
          /\ \A t \in {trades[i] : i \in 1..Len(trades)} :
               (/\ t.user_id # u
                /\ \/ \E p \in OwnerTradeUpdates : update_trade(u, t.id, p)
                   \/ delete_trade(u, t.id))
               => (/\ last_response'.status \in {404, 500}
                   /\ UNCHANGED <<chats, messages, trades>>)
          /\ \A c \in DOMAIN chats :
               (/\ chats[c].user_id # u
                /\ (delete_chat(u, c) \/ generate_title(u, c)))
               => (/\ last_response'.status \in {404, 500}
                   /\ UNCHANGED <<chats, messages, trades>>)]_vars

\* every trade id is a stored row of u1 and an update or delete request on one
\* of them (of u2, then) has been answered NotFound, after a title update
C15_Witness ==
  /\ last_response.status = 404
  /\ last_response.op \in {"update_trade", "delete_trade"}
  /\ \A id \in OwnerTradeIds :
       \E i \in 1..Len(trades) : trades[i].id = id /\ trades[i].user_id = "u1"
  /\ "c1" \in DOMAIN chats /\ chats["c1"].title # "New chat"

\* C16: in generate_title, when title generation yields no title (the model
\* call fails or returns nothing, or the chat has no messages) the stored
\* title is unchanged and the request returns an error; the title is updated
\* only with a non-empty produced title and only on the caller's own chat.
C16_NoTitleNoUpdate ==
  [][\A u \in Users, c \in OwnerChatIds :
       generate_title(u, c) =>
         LET produced == last_response'.body[1].new_title
             no_messages == \A i \in 1..Len(messages) : messages[i].chat_id # c
         IN /\ (produced = None \/ no_messages) =>
                 (chats' = chats /\ last_response'.status \in {400, 404, 500})
            /\ chats' # chats =>
                 /\ produced # None /\ produced[1] # ""
                 /\ c \in DOMAIN chats /\ chats[c].user_id = u
                 /\ chats' = [chats EXCEPT ![c].title = produced[1]]
                 /\ last_response'.status = 200]_vars

\* a title request on a chat with messages failed for want of a title and the
\* title is the one the chat was created with
C16_Witness ==
  /\ last_response.op = "generate_title"
  /\ last_response.status = 500
  /\ last_response.body[1].new_title = None
  /\ "c1" \in DOMAIN chats /\ chats["c1"].title = "New chat"
  /\ \E i \in 1..Len(messages) : messages[i].chat_id = "c1"

\* the confirmation block of a logged trade: ticker, entry and exit price,
\* quantity, and the profit or loss or OPEN
ConfirmationBlock(t, profit_loss) ==
  <<"Trade logged", t.ticker, ToString(t.entry_price),
    IF t.exit_price = None THEN "-" ELSE ToString(t.exit_price[1]),
    ToString(t.quantity),
    IF profit_loss = None THEN "OPEN" ELSE ToString(profit_loss[1])>>

\* C17: the assistant message a successful request persisted and returned is,
\* when a trade was extracted, the reply with the confirmation block of the
\* trade prepended, and the reply alone when no trade was extracted.
C17_ConfirmationBlockPrepended ==
  \A r \in ReqIds :
    LET q == reqs[r]
        reply == q.ai_response_text
        text == IF q.extracted_trade # None
                  THEN ConfirmationBlock(q.extracted_trade[1], q.profit_loss_value)
                       \o reply
                  ELSE reply
    IN q.pc = "Done" =>
         /\ q.response.message = text
         /\ \A i \in MsgsBy(r, "assistant") : messages[i].content = text

\* the outcome of the handler for an unanticipated error (ai_chat's last
\* except clause)
InternalErrorOutcome == [status |-> 500, detail |-> "Unexpected"]

\* C18: when the ownership check, the user-message insert or the context
\* fetch of ai_chat fails because the store is unavailable, the request ends
\* with an outcome that can be told from the outcome of an unanticipated
\* internal error.
C18_StoreFailureIsDistinct ==
  \A r \in ReqIds :
    LET q == reqs[r] IN
    (/\ q.pc = "Failed"
     /\ \/ q.lookup = "error"
        \/ q.user_msg_task = "failed"
        \/ q.db_read_task = "failed") =>
      ~(/\ q.status = InternalErrorOutcome.status
        /\ q.detail = InternalErrorOutcome.detail)

\* C19: once step 4 has launched its writes, the request has produced no
\* response, success or failure, while one of the writes is still in flight.
C19_NoResponseBeforeBothWrites ==
  \A r \in ReqIds :
    LET q == reqs[r] IN
    (q.gen_outcome # "none" /\ q.pc \in {"Done", "Failed"}) =>
      /\ q.ai_msg_task # "running"
      /\ q.trade_insert_task # "running"

\* C20: the profit_loss of a Trade row written by ai_chat is the value
\* calculate_profit_loss gives for the draft's entry_price, exit_price and
\* quantity, which is the value create_trade persists for the same draft; a
\* draft with exit_price 0 included.
C20_ChatProfitLossAsCreateTrade ==
  \A i \in 1..Len(trades) :
    trades[i].by # 0 =>
      LET q == reqs[trades[i].by]
          draft == q.extracted_trade[1]
      IN /\ trades[i].profit_loss
              = calculate_profit_loss(draft.entry_price, draft.exit_price,
                                      draft.quantity)
         /\ trades[i].profit_loss
              = create_trade_sync(trades[i].id, draft, q.user_id).profit_loss

\* C21: after any sequence of create_trade, ai_chat trade inserts and
\* update_trade (updates that patch the ticker included), the ticker of every
\* stored Trade is in upper case.
C21_TickersUpperCase ==
  \A i \in 1..Len(trades) : trades[i].ticker = upper(trades[i].ticker)

\* C22: after any sequence of ai_chat and create_message requests every stored
\* Message has the role user or assistant (a request with another role is
\* rejected without a write).
C22_RolesClosed ==
  \A i \in 1..Len(messages) : messages[i].role \in {"user", "assistant"}

\* C23: every stored Message references a Chat of the user it is stamped
\* with: ai_chat and create_message insert only into a chat the caller owns,
\* under the caller's id.
C23_MessageOwnerIsChatOwner ==
  \A i \in 1..Len(messages) :
    /\ messages[i].chat_id \in DOMAIN chats
    /\ chats[messages[i].chat_id].user_id = messages[i].user_id

\* u2 has posted a message to its own chat
C23_Witness ==
  \E i \in 1..Len(messages) :
    /\ messages[i].by = 0
    /\ messages[i].chat_id = "c2" /\ messages[i].user_id = "u2"
    /\ last_response.op = "create_message" /\ last_response.status = 201

\* the current date of the extraction prompt
Today == Date2

\* C24: when the output of the extraction model has a ticker and an entry
\* price but no quantity or no entry_date, extract_trade_from_text returns a
\* draft with the missing quantity set to 1 and the missing entry_date set to
\* the current date, and not None.
C24_ExtractionAppliesDefaults ==
  (last_response.op = "extract_trade" /\ last_response.status = 200) =>
    LET out == last_response.body[1].output
        trade == last_response.body[1].trade
        j == out.data
    IN (/\ out.kind = "json"
        /\ {"ticker", "entry_price"} \subseteq j.keys
        /\ j.val.ticker # None /\ j.val.entry_price # None /\ j.bad = {}
        /\ ("quantity" \notin j.keys \/ "entry_date" \notin j.keys)) =>
         /\ trade # None
         /\ trade[1].quantity = IF "quantity" \in j.keys THEN j.val.quantity[1] ELSE 1
         /\ trade[1].entry_date
              = IF "entry_date" \in j.keys THEN j.val.entry_date[1] ELSE Today

Terminal == {"Done", "Rejected", "Failed"}

\* the moves of a request: one state forward, Rejected from Start, Failed
\* from any state that is not terminal
PcMoves ==
  {<<"Start", "OwnershipVerified">>, <<"OwnershipVerified", "ContextGathered">>,
   <<"ContextGathered", "ReplyGenerated">>, <<"ReplyGenerated", "Persisted">>,
   <<"Persisted", "Done">>, <<"Start", "Rejected">>}
  \cup {<<p, "Failed">> : p \in {"Start", "OwnershipVerified", "ContextGathered",
                                 "ReplyGenerated", "Persisted"}}

\* C25: an ai_chat request moves only forward through Start,
\* OwnershipVerified, ContextGathered, ReplyGenerated, Persisted, Done, one
\* state at a time, Rejected is entered only from Start and a terminal state
\* is never left; and when every store and model call returns or fails, the
\* request reaches one of Done, Rejected and Failed.
C25_ForwardAndTerminates ==
  /\ [][\A r \in 1..Len(reqs) :
          reqs'[r].pc # reqs[r].pc => <<reqs[r].pc, reqs'[r].pc>> \in PcMoves]_vars
  /\ \A r \in 1..MaxReqs :
       (r \in 1..Len(reqs)) ~> (r \in 1..Len(reqs) /\ reqs[r].pc \in Terminal)

\* a request has gone the whole way to Done
C25_Witness ==
  \E r \in ReqIds :
    /\ reqs[r].pc = "Done"
    /\ reqs[r].ai_msg_task = "ok"
    /\ reqs[r].trade_insert_task = "ok"

\* C26: an ai_chat request only inserts rows: no step of a request changes a
\* Chat row, and every Message and Trade row stored before the step is still
\* there, in place and unchanged, after it
IsPrefix(s, t) == Len(s) <= Len(t) /\ SubSeq(t, 1, Len(s)) = s

C26_ChatOnlyInserts ==
  [][/\ chats' = chats
     /\ IsPrefix(messages, messages')
     /\ IsPrefix(trades, trades')]_vars

\* a request has written its two messages and its trade after the stored rows
C26_Witness ==
  /\ Len(messages) = 3 /\ messages[1].by = 0
  /\ Len(trades) = 2 /\ trades[1].by = 0 /\ trades[2].by = 1
  /\ \E r \in 1..Len(reqs) : reqs[r].pc = "Done"

\* the history read of request r has returned
HistoryRead(q) == q.db_read_task \in {"reading_trades", "ok"}

\* the rows of request b in the history read by request a
Observed(a, b, role) ==
  {i \in 1..Len(reqs[a].messages_data) :
     reqs[a].messages_data[i].by = b /\ reqs[a].messages_data[i].role = role}

\* the stored messages, each as the request that wrote it and its role
StoredOrder == [i \in 1..Len(messages) |-> <<messages[i].by, messages[i].role>>]

\* C27: concurrent ai_chat requests of one user on one chat are not
\* serialized: the history a request has read is whatever the chat held at the
\* time of the read, a front part of the chat's stored messages that may end
\* between another request's user message and its assistant reply (but never
\* holds a reply without the user message it answers); the witness is the
\* execution in which that happens and the stored order is user A, user B,
\* assistant A, assistant B, or with the two replies swapped
C27_ReadsAreNotSerialized ==
  \A a \in ReqIds :
    HistoryRead(reqs[a]) =>
      /\ IsPrefix(reqs[a].messages_data, ChatMessages(reqs[a].chat_id))
      /\ \A b \in ReqIds :
           Observed(a, b, "assistant") # {} => Observed(a, b, "user") # {}

C27_Witness ==
  \E a, b \in ReqIds :
    /\ a # b
    /\ reqs[a].user_id = reqs[b].user_id /\ reqs[a].chat_id = reqs[b].chat_id
    /\ Observed(a, b, "user") # {} /\ Observed(a, b, "assistant") = {}
    /\ StoredOrder \in {<< <<a, "user">>, <<b, "user">>, <<a, "assistant">>, <<b, "assistant">> >>,
                        << <<a, "user">>, <<b, "user">>, <<b, "assistant">>, <<a, "assistant">> >>}

\* the messages of request r's chat that were stored before the request (in
\* SpecFrame, where r is the only request: the rows no request wrote)
StoredBefore(r) ==
  SelectSeq(ChatMessages(reqs[r].chat_id), LAMBDA m : m.by = 0)

\* C28: in a request that runs alone on its chat, the history passed to
\* generate_chat_response is the messages stored before the request, without
\* the request's own user message, whatever the order of the step-2 tasks
C28_HistoryExcludesOwnMessage ==
  \A r \in ReqIds :
    reqs[r].gen_outcome # "none" =>
      chat_history_for_ai(reqs[r].messages_data)
        = chat_history_for_ai(StoredBefore(r))

\* C29: a request that ends with a failure response has left no Trade row in
\* the store, and a Trade row written by a request that has ended means the
\* request answered successfully with trade_extracted set, also when the
\* assistant-message insert of step 4 fails
C29_FailedRequestLeavesNoTrade ==
  \A r \in ReqIds :
    LET q == reqs[r] IN
    /\ q.pc \in {"Rejected", "Failed"} => TradesBy(r) = {}
    /\ (q.pc \in Terminal /\ TradesBy(r) # {}) =>
         q.pc = "Done" /\ q.response.trade_extracted # None

====
